---- MODULE Spec2Model ----
(***************************************************************************)
(* Order lifecycle of the food-delivery backend: the delivery-agent       *)
(* controller (src/controllers/deliveryAgent.controller.js).              *)
(*                                                                         *)
(* Every request handler is an async function: it runs to its next await  *)
(* and other handlers run in between.  A handler is therefore modelled as *)
(* one action per await: the agent read, the order read (with the checks  *)
(* and the in-memory changes that follow it synchronously), the order     *)
(* save and the agent save.                                               *)
(*                                                                         *)
(* Documents are Mongoose documents.  doc.save() sends the changed paths  *)
(* only: a plain field as $set, an array push as $push, a re-assigned     *)
(* array as $set of the whole array.  A $push increments the version key  *)
(* __v; a $set of a whole array also puts the version that was read into  *)
(* the filter of the update, and the save throws a VersionError when no   *)
(* document matches.  Assigning a path a value equal to the one it holds  *)
(* is no change, and is not sent.                                          *)
(*                                                                         *)
(* Requests name agents and orders that exist, so the 404 returns of the  *)
(* handlers do not arise.  The messages handed to socket.io are kept for  *)
(* updateLocation and for the change-stream watcher                       *)
(* (src/utils/changeStreams.js); the shutdown of the process is that of   *)
(* src/index.js.                                                           *)
(***************************************************************************)
EXTENDS Integers, Sequences, FiniteSets, Bags, TLC

\* ------------------------------------------------------------------ bounds
\* number of accept / reject / complete requests in one behaviour
MaxReq == 2

\* "no document" / "no reference"
Null == "null"

\* minutes added to the current time for the estimated delivery time
EstimateMinutes == 30

Terminal == {"delivered", "cancelled"}

VARIABLES
  agents,     \* DeliveryAgent collection: agent id -> document
  orders,     \* Order collection: order id -> document
  pending,    \* the handler invocations that are waiting at an await (a bag)
  responses,  \* the responses sent so far (a bag)
  now,        \* the clock read by new Date()
  profiles,   \* DeliveryAgent documents made by registration: a bag of users
  readyState,        \* mongoose.connection.readyState: 1 is connected
  orderChangeStream, \* the stream the module holds: none, open or closed
  closeEvents, \* 'close' events that closed streams have still to emit
  timers,      \* pending setTimeout(createOrderChangeStream, 5000) calls
  faults,      \* failures of the store and of the stream so far
  shutdown,    \* how far gracefulShutdown and closeChangeStreams have run
  orphans,     \* open streams that the module no longer holds
  oplog,       \* the changes committed to the Order collection, in order
  cursor,      \* how much of oplog the held stream has passed
  published    \* the messages handed to io.to(room).emit, in order

lifecycleVars == <<agents, orders, pending, responses, now>>
registryVars == <<profiles>>
watcherVars == <<readyState, orderChangeStream, closeEvents, timers, faults,
                 shutdown, orphans, oplog, cursor, published>>

vars == <<lifecycleVars, registryVars, watcherVars>>

\* the documents in the two collections
Agents == DOMAIN agents
Orders == DOMAIN orders

\* ---------------------------------------------------------------- helpers
\* the order of a handler that has not read its order yet
NoOrderDoc ==
  [status |-> Null, deliveryAgent |-> Null, statusHistory |-> <<>>,
   estimatedDeliveryTime |-> 0, actualDeliveryTime |-> 0,
   pickupLocation |-> [coordinates |-> <<>>]]

\* array.includes(x)
Includes(s, x) == \E i \in 1..Len(s) : s[i] = x

\* array.filter(id => !id.equals(x))
FilterOut(s, x) == SelectSeq(s, LAMBDA y : y # x)

\* number of occurrences of x in s
RECURSIVE Count(_, _)
Count(s, x) ==
  IF s = <<>> THEN 0
  ELSE (IF Head(s) = x THEN 1 ELSE 0) + Count(Tail(s), x)

\* s is an initial part of t
IsPrefix(s, t) == Len(s) <= Len(t) /\ SubSeq(t, 1, Len(s)) = s

\* the requests made so far
Calls == BagCardinality(pending) + BagCardinality(responses)

\* a handler invocation after DeliveryAgent.findOne: it holds the agent it
\* read and waits for Order.findById
NewReq(op, a, o) ==
  [op |-> op, agent |-> a, order |-> o, pc |-> "readOrder",
   agentDoc |-> agents[a], orderDoc |-> NoOrderDoc, ts |-> 0]

\* the response of handler op, called by agent a for order o
Response(op, a, o, out) ==
  [op |-> op, agent |-> a, order |-> o, outcome |-> out]

\* a new invocation q reaches its first await after the agent read
Start(q) ==
  /\ pending' = pending (+) SetToBag({q})
  /\ responses' = responses

\* a new invocation returns without a further await:
\* return next(createError(...))
Refuse(op, a, o, out) ==
  /\ pending' = pending
  /\ responses' = responses (+) SetToBag({Response(op, a, o, out)})

\* invocation q resumes and runs to its next await, as q2
Await(q, q2) ==
  /\ pending' = (pending (-) SetToBag({q})) (+) SetToBag({q2})
  /\ responses' = responses

\* invocation q resumes and returns: next(createError(...)) or
\* res.status(200).json(...)
Finish(q, out) ==
  /\ pending' = pending (-) SetToBag({q})
  /\ responses' = responses
                    (+) SetToBag({Response(q.op, q.agent, q.order, out)})

\* ------------------------------------------------------------------- Init
\* positions, as [longitude, latitude] on a grid of 500 m steps: where the
\* agents start, and pickup points 1500 m and 2500 m from there
Start_Position == <<7, 1>>
Pickup_1500 == <<7, 4>>
Pickup_2500 == <<7, 6>>

\* An order as the controller first sees it: confirmed and unassigned, to
\* be picked up 1500 m from the agents
ConfirmedOrder ==
  [status |-> "confirmed", deliveryAgent |-> Null, statusHistory |-> <<>>,
   estimatedDeliveryTime |-> 0, actualDeliveryTime |-> 0,
   pickupLocation |-> [coordinates |-> Pickup_1500]]

\* the order document d with its pickup point at p; <<>> is an order that
\* was stored without coordinates
PickupAt(d, p) == [d EXCEPT !.pickupLocation = [coordinates |-> p]]

\* an order the customer cancelled before any agent took it
CancelledOrder == [ConfirmedOrder EXCEPT !.status = "cancelled"]

\* an order agent a accepted at time 0 (the state acceptOrder leaves)
AcceptedOrder(a) ==
  [status |-> "out_for_delivery", deliveryAgent |-> a,
   statusHistory |-> <<[status |-> "out_for_delivery", timestamp |-> 0]>>,
   estimatedDeliveryTime |-> EstimateMinutes, actualDeliveryTime |-> 0,
   pickupLocation |-> [coordinates |-> Pickup_1500]]

\* the orders of ords that are out for delivery with agent a, in id order
ActiveOf(ords, a) ==
  SelectSeq(<<"O1", "O2">>,
            LAMBDA o : o \in DOMAIN ords /\ ords[o].deliveryAgent = a)

\* A registered agent is available and unverified (registerAsDeliveryAgent);
\* its activeOrders and version are those its accepted orders left behind,
\* and it has reported a position.
NewAgent(ords, a) ==
  LET active == ActiveOf(ords, a)
  IN [isVerified |-> FALSE, isAvailable |-> TRUE, v |-> Len(active),
      activeOrders |-> active, deliveryHistory |-> <<>>,
      rejectedOrders |-> <<>>,
      currentLocation |-> [coordinates |-> Start_Position]]

\* the watcher after server.listen's callback: connectDB has connected and
\* setupChangeStreams has made the first stream
WatcherStarted ==
  /\ readyState = 1
  /\ orderChangeStream = "open"
  /\ closeEvents = 0
  /\ timers = 0
  /\ faults = 0
  /\ shutdown = "running"
  /\ orphans = 0
  /\ oplog = <<>>
  /\ cursor = 0
  /\ published = <<>>

\* a store with the agents ags and the orders ords, no registration and no
\* request yet, and the watcher started
InitStore(ags, ords) ==
  /\ orders = ords
  /\ agents = [a \in ags |-> NewAgent(ords, a)]
  /\ pending = EmptyBag
  /\ responses = EmptyBag
  /\ now = 1
  /\ profiles = EmptyBag
  /\ WatcherStarted

\* two agents and one order
Init ==
  \E d \in {ConfirmedOrder, CancelledOrder, AcceptedOrder("A")} :
    InitStore({"A", "B"}, [o \in {"O1"} |-> d])

\* ------------------------------------------------------- agent registry
\* verifyDeliveryAgent: agent.isVerified = isVerified; agent.save()
verifyDeliveryAgent(a, isVerified) ==
  /\ agents' = [agents EXCEPT ![a].isVerified = isVerified]
  /\ UNCHANGED <<orders, pending, responses, now>>

\* updateAvailability: agent.isAvailable = isAvailable; agent.save()
updateAvailability(a, isAvailable) ==
  /\ agents' = [agents EXCEPT ![a].isAvailable = isAvailable]
  /\ UNCHANGED <<orders, pending, responses, now>>

\* ------------------------------------------------------------ acceptOrder
\* acceptOrder_readAgent without the isAvailable check
acceptOrder_readAgent_NoAvailableCheck(a, o) ==
  /\ Calls < MaxReq
  /\ IF ~agents[a].isVerified
     THEN Refuse("accept", a, o, "not_verified")
     ELSE Start(NewReq("accept", a, o))
  /\ UNCHANGED <<agents, orders, now>>

\* DeliveryAgent.findOne and the two checks on the agent that was read
acceptOrder_readAgent(a, o) ==
  /\ Calls < MaxReq
  /\ IF ~agents[a].isVerified
     THEN Refuse("accept", a, o, "not_verified")
     ELSE IF ~agents[a].isAvailable
     THEN Refuse("accept", a, o, "not_available")
     ELSE Start(NewReq("accept", a, o))
  /\ UNCHANGED <<agents, orders, now>>

\* Order.findById, the checks on the order that was read, and the changes
\* made to the in-memory order up to the call of order.save()
acceptOrder_readOrder(q) ==
  /\ q.op = "accept" /\ q.pc = "readOrder"
  /\ LET doc == orders[q.order]
     IN IF doc.deliveryAgent # Null
        THEN /\ Finish(q, "already_assigned")
             /\ now' = now
        ELSE IF doc.status # "confirmed"
        THEN /\ Finish(q, "not_for_delivery")
             /\ now' = now
        ELSE /\ Await(q, [q EXCEPT !.pc = "saveOrder", !.orderDoc = doc,
                                   !.ts = now])
             /\ now' = now + 1
  /\ UNCHANGED <<agents, orders>>

\* acceptOrder_saveOrder without the assignment to order.status
acceptOrder_saveOrder_KeepsStatus(q) ==
  /\ q.op = "accept" /\ q.pc = "saveOrder"
  /\ orders' = [orders EXCEPT
       ![q.order].deliveryAgent = q.agent,
       ![q.order].estimatedDeliveryTime = q.ts + EstimateMinutes,
       ![q.order].statusHistory = Append(@,
          [status |-> "out_for_delivery", timestamp |-> q.ts])]
  /\ Await(q, [q EXCEPT !.pc = "saveAgent"])
  /\ UNCHANGED <<agents, now>>

\* order.save(): $set deliveryAgent, status, estimatedDeliveryTime and
\* $push of the new statusHistory entry, in one update of the document
acceptOrder_saveOrder(q) ==
  /\ q.op = "accept" /\ q.pc = "saveOrder"
  /\ orders' = [orders EXCEPT
       ![q.order].deliveryAgent = q.agent,
       ![q.order].status = "out_for_delivery",
       ![q.order].estimatedDeliveryTime = q.ts + EstimateMinutes,
       ![q.order].statusHistory = Append(@,
          [status |-> "out_for_delivery", timestamp |-> q.ts])]
  /\ Await(q, [q EXCEPT !.pc = "saveAgent"])
  /\ UNCHANGED <<agents, now>>

\* agent.activeOrders.push(order._id); agent.save(); the success response
acceptOrder_saveAgent(q) ==
  /\ q.op = "accept" /\ q.pc = "saveAgent"
  /\ agents' = [agents EXCEPT
       ![q.agent].activeOrders = Append(@, q.order),
       ![q.agent].v = @ + 1]
  /\ Finish(q, "success")
  /\ UNCHANGED <<orders, now>>

\* ------------------------------------------------------- completeDelivery
\* DeliveryAgent.findOne
completeDelivery_readAgent(a, o) ==
  /\ Calls < MaxReq
  /\ Start(NewReq("complete", a, o))
  /\ UNCHANGED <<agents, orders, now>>

\* completeDelivery_readOrder that only checks that the order is assigned
completeDelivery_readOrder_NoOwnerCheck(q) ==
  /\ q.op = "complete" /\ q.pc = "readOrder"
  /\ LET doc == orders[q.order]
     IN IF doc.deliveryAgent = Null
        THEN /\ Finish(q, "forbidden")
             /\ now' = now
        ELSE IF doc.status # "out_for_delivery"
        THEN /\ Finish(q, "not_out_for_delivery")
             /\ now' = now
        ELSE /\ Await(q, [q EXCEPT !.pc = "saveOrder", !.orderDoc = doc,
                                   !.ts = now])
             /\ now' = now + 1
  /\ UNCHANGED <<agents, orders>>

\* Order.findById, the ownership and status checks, and the changes made
\* to the in-memory order up to the call of order.save()
completeDelivery_readOrder(q) ==
  /\ q.op = "complete" /\ q.pc = "readOrder"
  /\ LET doc == orders[q.order]
     IN IF doc.deliveryAgent = Null \/ doc.deliveryAgent # q.agent
        THEN /\ Finish(q, "forbidden")
             /\ now' = now
        ELSE IF doc.status # "out_for_delivery"
        THEN /\ Finish(q, "not_out_for_delivery")
             /\ now' = now
        ELSE /\ Await(q, [q EXCEPT !.pc = "saveOrder", !.orderDoc = doc,
                                   !.ts = now])
             /\ now' = now + 1
  /\ UNCHANGED <<agents, orders>>

\* order.save(): $set status, actualDeliveryTime and $push of the new
\* statusHistory entry, in one update of the document
completeDelivery_saveOrder(q) ==
  /\ q.op = "complete" /\ q.pc = "saveOrder"
  /\ orders' = [orders EXCEPT
       ![q.order].status = "delivered",
       ![q.order].actualDeliveryTime = q.ts,
       ![q.order].statusHistory = Append(@,
          [status |-> "delivered", timestamp |-> q.ts])]
  /\ Await(q, [q EXCEPT !.pc = "saveAgent"])
  /\ UNCHANGED <<agents, now>>

\* agent.activeOrders = agent.activeOrders.filter(...);
\* agent.deliveryHistory.push(order._id); agent.save().
\* An array that the filter changed is written whole, from the agent as it
\* was read, under the version that was read; a changed version makes save()
\* throw and the catch block answers 500.  An array that the filter left as
\* it was read is not a change, and save() sends the push alone.
completeDelivery_saveAgent(q) ==
  /\ q.op = "complete" /\ q.pc = "saveAgent"
  /\ IF ~ Includes(q.agentDoc.activeOrders, q.order)
     THEN /\ agents' = [agents EXCEPT
               ![q.agent].deliveryHistory = Append(@, q.order),
               ![q.agent].v = @ + 1]
          /\ Finish(q, "success")
     ELSE IF agents[q.agent].v = q.agentDoc.v
     THEN /\ agents' = [agents EXCEPT
               ![q.agent].activeOrders =
                  FilterOut(q.agentDoc.activeOrders, q.order),
               ![q.agent].deliveryHistory = Append(@, q.order),
               ![q.agent].v = @ + 1]
          /\ Finish(q, "success")
     ELSE /\ agents' = agents
          /\ Finish(q, "error_500")
  /\ UNCHANGED <<orders, now>>

\* ------------------------------------------------------------ rejectOrder
\* rejectOrder that does not look at isVerified
rejectOrder_readAgent_NoVerifiedCheck(a, o) ==
  /\ Calls < MaxReq
  /\ IF ~agents[a].isAvailable
     THEN Refuse("reject", a, o, "not_available")
     ELSE Start(NewReq("reject", a, o))
  /\ UNCHANGED <<agents, orders, now>>

\* DeliveryAgent.findOne and the two checks on the agent that was read
rejectOrder_readAgent(a, o) ==
  /\ Calls < MaxReq
  /\ IF ~agents[a].isVerified
     THEN Refuse("reject", a, o, "not_verified")
     ELSE IF ~agents[a].isAvailable
     THEN Refuse("reject", a, o, "not_available")
     ELSE Start(NewReq("reject", a, o))
  /\ UNCHANGED <<agents, orders, now>>

\* Order.findById, the check that the order is unassigned, and the
\* includes() test on the rejectedOrders of the agent that was read
rejectOrder_readOrder(q) ==
  /\ q.op = "reject" /\ q.pc = "readOrder"
  /\ LET doc == orders[q.order]
     IN IF doc.deliveryAgent # Null
        THEN Finish(q, "already_assigned")
        ELSE IF Includes(q.agentDoc.rejectedOrders, q.order)
        THEN Finish(q, "success")
        ELSE Await(q, [q EXCEPT !.pc = "saveAgent", !.orderDoc = doc])
  /\ UNCHANGED <<agents, orders, now>>

\* agent.rejectedOrders.push(order._id); agent.save(); the success response
rejectOrder_saveAgent(q) ==
  /\ q.op = "reject" /\ q.pc = "saveAgent"
  /\ agents' = [agents EXCEPT
       ![q.agent].rejectedOrders = Append(@, q.order),
       ![q.agent].v = @ + 1]
  /\ Finish(q, "success")
  /\ UNCHANGED <<orders, now>>

\* -------------------------------------------------------- getNearbyOrders
\* const maxDistance = 2000: the radius of the $near filter, in metres
maxDistance == 2000

\* Number.MAX_SAFE_INTEGER, the distance value of an order whose distance
\* could not be computed (cut to the largest integer of the model checker)
MAX_SAFE_INTEGER == 2147483647

\* the distance the store computes for $near between two [longitude,
\* latitude] pairs: the positions lie on a grid of 500 m steps
Metres(p, r) ==
  LET Abs(x) == IF x < 0 THEN -x ELSE x
  IN 500 * (Abs(p[1] - r[1]) + Abs(p[2] - r[2]))

\* calculateDistance(lat1, lon1, lat2, lon2): the controller calls it but
\* neither defines nor imports it, so that evaluating the call throws a
\* ReferenceError
calculateDistance(lat1, lon1, lat2, lon2) == [threw |-> TRUE, value |-> 0]

\* const [orderLongitude, orderLatitude] = order.pickupLocation.coordinates
\* and the call of calculateDistance with the agent's and the order's
\* position; without coordinates the statement throws, too
exactDistance(agentDoc, o) ==
  LET here == agentDoc.currentLocation.coordinates
      there == orders[o].pickupLocation.coordinates
  IN IF there = <<>> THEN [threw |-> TRUE, value |-> 0]
     ELSE calculateDistance(here[2], here[1], there[2], there[1])

\* the map of the orders found (lines 185-225): the body is in a try, and
\* its catch gives the order the value MAX_SAFE_INTEGER and puts it out of
\* range
ordersWithDistance(agentDoc, o) ==
  LET d == exactDistance(agentDoc, o)
  IN IF d.threw
     THEN [_id |-> o, distance |-> MAX_SAFE_INTEGER, text |-> "Unknown",
           withinDeliveryRange |-> FALSE]
     ELSE [_id |-> o, distance |-> d.value, text |-> "metres",
           withinDeliveryRange |-> d.value <= maxDistance]

\* ordersWithDistance.sort((a, b) => a.distance.value - b.distance.value):
\* the sort is stable
RECURSIVE SortByDistance(_)
SortByDistance(s) ==
  IF s = <<>> THEN <<>>
  ELSE LET rest == SortByDistance(Tail(s))
           before == SelectSeq(rest,
                       LAMBDA x : x.distance < Head(s).distance)
           after == SelectSeq(rest,
                       LAMBDA x : x.distance >= Head(s).distance)
       IN before \o <<Head(s)>> \o after

\* the orders of the set S nearest first, as $near returns them
RECURSIVE NearestFirst(_, _)
NearestFirst(here, S) ==
  IF S = {} THEN <<>>
  ELSE LET o == CHOOSE x \in S : \A y \in S :
                  \/ Metres(here, orders[x].pickupLocation.coordinates)
                       < Metres(here, orders[y].pickupLocation.coordinates)
                  \/ /\ Metres(here, orders[x].pickupLocation.coordinates)
                         = Metres(here,
                                  orders[y].pickupLocation.coordinates)
                     /\ (x = "O1" \/ y = "O2")
       IN <<o>> \o NearestFirst(here, S \ {o})

\* a getNearbyOrders invocation waiting at pc: it holds the agent it read
\* and the orders it found
NearbyReq(a, includeAllConfirmed, agentDoc, pc, found) ==
  [op |-> "nearby", agent |-> a, order |-> Null, pc |-> pc,
   agentDoc |-> agentDoc, includeAllConfirmed |-> includeAllConfirmed,
   found |-> found]

\* pickupLocation: { $near: ..., $maxDistance: maxDistance }: the order has
\* a position, at most maxDistance from the agent's
near(q, o) ==
  /\ orders[o].pickupLocation.coordinates # <<>>
  /\ Metres(q.agentDoc.currentLocation.coordinates,
            orders[o].pickupLocation.coordinates) <= maxDistance

\* orderQuery without _id: { $nin: rejectedOrderIds }
orderQuery_NoRejectedFilter(q, o) ==
  /\ orders[o].deliveryAgent = Null
  /\ orders[o].status = "confirmed"
  /\ q.includeAllConfirmed \/ near(q, o)

\* orderQuery: not rejected by the agent that was read, no deliveryAgent,
\* status confirmed and, unless includeAllConfirmed, within maxDistance
orderQuery(q, o) ==
  /\ ~ Includes(q.agentDoc.rejectedOrders, o)
  /\ orders[o].deliveryAgent = Null
  /\ orders[o].status = "confirmed"
  /\ q.includeAllConfirmed \/ near(q, o)

\* DeliveryAgent.findOne and the two checks on the agent that was read
getNearbyOrders_readAgent(a, includeAllConfirmed) ==
  /\ Calls < MaxReq
  /\ IF ~agents[a].isVerified
     THEN Refuse("nearby", a, Null, "not_verified")
     ELSE IF ~agents[a].isAvailable
     THEN Refuse("nearby", a, Null, "not_available")
     ELSE Start(NearbyReq(a, includeAllConfirmed, agents[a], "findOrders",
                          <<>>))
  /\ UNCHANGED <<agents, orders, now>>

\* Order.find(orderQuery), in the order of the collection or, with $near,
\* nearest first; then the distance of each order found and the sort
getNearbyOrders_findOrders(q) ==
  /\ q.op = "nearby" /\ q.pc = "findOrders"
  /\ LET S == {o \in Orders : orderQuery(q, o)}
         allConfirmedOrders ==
           IF q.includeAllConfirmed
           THEN SelectSeq(<<"O1", "O2">>, LAMBDA o : o \in S)
           ELSE NearestFirst(q.agentDoc.currentLocation.coordinates, S)
     IN Await(q, [q EXCEPT
          !.pc = "findActive",
          !.found = SortByDistance(
             [i \in 1..Len(allConfirmedOrders) |->
                ordersWithDistance(q.agentDoc, allConfirmedOrders[i])])])
  /\ UNCHANGED <<agents, orders, now>>

\* Order.find of the agent's activeOrders that are out for delivery and the
\* map that computes their distances (lines 240-263): its body is in no
\* try, so that a throw rejects Promise.all and the handler's catch answers
\* 500.  The response lists the orders found first and these after them.
getNearbyOrders_findActive(q) ==
  /\ q.op = "nearby" /\ q.pc = "findActive"
  /\ LET activeOrders ==
           SelectSeq(<<"O1", "O2">>,
             LAMBDA o : /\ o \in Orders
                        /\ Includes(q.agentDoc.activeOrders, o)
                        /\ orders[o].status = "out_for_delivery")
     IN IF \E i \in 1..Len(activeOrders) :
             exactDistance(q.agentDoc, activeOrders[i]).threw
        THEN Finish(q, "error_500")
        ELSE /\ pending' = pending (-) SetToBag({q})
             /\ responses' = responses (+) SetToBag({
                  [op |-> "nearby", agent |-> q.agent, order |-> Null,
                   outcome |-> "success",
                   orders |-> q.found \o
                     [i \in 1..Len(activeOrders) |->
                        [_id |-> activeOrders[i],
                         distance |->
                           exactDistance(q.agentDoc,
                                         activeOrders[i]).value,
                         text |-> "metres"]]]})
  /\ UNCHANGED <<agents, orders, now>>

\* --------------------------------------------------------- updateLocation
\* values of req.body.longitude and req.body.latitude
Number(n) == [type |-> "number", value |-> n]
String(n) == [type |-> "string", value |-> n]
Undefined == [type |-> "undefined", value |-> 0]

\* !x: undefined, 0 and the empty string are falsy
Falsy(x) ==
  \/ x.type = "undefined"
  \/ x.type = "number" /\ x.value = 0

\* !longitude || !latitude || typeof longitude !== 'number'
\*   || typeof latitude !== 'number'
InvalidCoordinates(longitude, latitude) ==
  \/ Falsy(longitude)
  \/ Falsy(latitude)
  \/ longitude.type # "number"
  \/ latitude.type # "number"

\* an updateLocation invocation waiting at pc: it holds the agent it read,
\* with the new currentLocation assigned
LocationReq(a, longitude, latitude, agentDoc, pc) ==
  [op |-> "location", agent |-> a, order |-> Null, pc |-> pc,
   longitude |-> longitude, latitude |-> latitude, agentDoc |-> agentDoc]

\* io.to(`order_${order._id}`).emit("deliveryLocationUpdate", {...})
DeliveryLocationUpdate(o, a, location) ==
  [room |-> <<"order", o>>, event |-> "deliveryLocationUpdate",
   orderId |-> o, agentId |-> a, location |-> location]

\* the validation of the body, DeliveryAgent.findOne and the assignment of
\* agent.currentLocation
updateLocation_readAgent(a, longitude, latitude) ==
  /\ Calls < MaxReq
  /\ IF InvalidCoordinates(longitude, latitude)
     THEN Refuse("location", a, Null, "invalid_coordinates")
     ELSE Start(LocationReq(a, longitude.value, latitude.value,
            [agents[a] EXCEPT !.currentLocation =
               [coordinates |-> <<longitude.value, latitude.value>>]],
            "save"))
  /\ UNCHANGED <<agents, orders, now, registryVars, watcherVars>>

\* agent.save(), which sets currentLocation alone; without activeOrders in
\* the agent that was read the handler answers 200
updateLocation_save(q) ==
  /\ q.op = "location" /\ q.pc = "save"
  /\ agents' = [agents EXCEPT
       ![q.agent].currentLocation = q.agentDoc.currentLocation]
  /\ IF Len(q.agentDoc.activeOrders) > 0
     THEN Await(q, [q EXCEPT !.pc = "findOrders"])
     ELSE Finish(q, "success")
  /\ UNCHANGED <<orders, now, registryVars, watcherVars>>

\* Order.find of the activeOrders that was read whose status is confirmed,
\* preparing or out_for_delivery, one deliveryLocationUpdate to the room of
\* each order found, and the answer 200
updateLocation_findOrders(q) ==
  /\ q.op = "location" /\ q.pc = "findOrders"
  /\ LET found ==
           SelectSeq(<<"O1", "O2">>,
             LAMBDA o : /\ o \in Orders
                        /\ Includes(q.agentDoc.activeOrders, o)
                        /\ orders[o].status \in
                             {"confirmed", "preparing", "out_for_delivery"})
     IN published' = published \o
          [i \in 1..Len(found) |->
             DeliveryLocationUpdate(found[i], q.agent,
                                    q.agentDoc.currentLocation)]
  /\ Finish(q, "success")
  /\ UNCHANGED <<agents, orders, now, registryVars, readyState,
                 orderChangeStream, closeEvents, timers, faults, shutdown,
                 orphans, oplog, cursor>>

\* ------------------------------------------------ registerAsDeliveryAgent
\* number of registration requests in one behaviour
MaxReg == 3

\* the users that ask to be registered
Users == {"U1", "U2", "U3"}

\* a registration that has found no profile and waits at an await
Registration(u, pc) == [op |-> "register", agent |-> u, order |-> Null,
                        pc |-> pc]

\* the unique index on the user reference of a DeliveryAgent: an insert is
\* refused when a document of the user exists
UserIsUnique(u) == CopiesIn(u, profiles) = 0

\* registerAsDeliveryAgent_findOne without the check of existingAgent
registerAsDeliveryAgent_findOne_NoCheck(u) ==
  /\ Calls < MaxReg
  /\ Start(Registration(u, "save"))
  /\ UNCHANGED <<agents, orders, now, profiles>>

\* DeliveryAgent.findOne({ user }) and the check of existingAgent
registerAsDeliveryAgent_findOne(u) ==
  /\ Calls < MaxReg
  /\ IF CopiesIn(u, profiles) > 0
     THEN Refuse("register", u, Null, "already_registered")
     ELSE Start(Registration(u, "save"))
  /\ UNCHANGED <<agents, orders, now, profiles>>

\* newAgent.save(): the insert; a refused insert throws and the catch block
\* answers 500
registerAsDeliveryAgent_save(q) ==
  /\ q.op = "register" /\ q.pc = "save"
  /\ IF UserIsUnique(q.agent)
     THEN /\ profiles' = profiles (+) SetToBag({q.agent})
          /\ Await(q, Registration(q.agent, "updateUser"))
     ELSE /\ profiles' = profiles
          /\ Finish(q, "error_500")
  /\ UNCHANGED <<agents, orders, now>>

\* User.findByIdAndUpdate adds the role; the 201 response
registerAsDeliveryAgent_updateUser(q) ==
  /\ q.op = "register" /\ q.pc = "updateUser"
  /\ Finish(q, "success")
  /\ UNCHANGED <<agents, orders, now, profiles>>

\* ------------------------------------------------------- changeStreams.js
\* number of failures of the store connection and of the change stream in
\* one behaviour
MaxFaults == 2

\* number of changes committed to the Order collection in one behaviour
MaxCommits == 2

\* the operation types the pipeline's $match lets through, which are the
\* ones the 'change' handler tests for
Watched == {"update", "insert", "replace"}

\* change.fullDocument of a change that carries no document
NoDocument ==
  [_id |-> Null, user |-> Null, deliveryAgent |-> Null, status |-> Null,
   updatedAt |-> 0]

\* an order document as a change carries it
OrderDocument(agent, status, at) ==
  [_id |-> "O1", user |-> "U1", deliveryAgent |-> agent, status |-> status,
   updatedAt |-> at]

\* the changes the store may commit at time at
Changes(at) ==
  { [operationType |-> "insert",
     fullDocument |-> OrderDocument(Null, "confirmed", at)],
    [operationType |-> "update",
     fullDocument |-> OrderDocument("A", "out_for_delivery", at)],
    [operationType |-> "replace",
     fullDocument |-> OrderDocument("A", "delivered", at)],
    [operationType |-> "update", fullDocument |-> NoDocument],
    [operationType |-> "delete", fullDocument |-> NoDocument] }

\* io.to(room).emit('orderUpdate', { orderId, status, updatedAt })
OrderUpdate(room, order) ==
  [room |-> room, event |-> "orderUpdate", orderId |-> order._id,
   status |-> order.status, updatedAt |-> order.updatedAt]

\* the 'change' handler that emits to the agent room whatever the order holds
OrderUpdates_AlwaysAgent(change) ==
  IF change.operationType \in {"update", "insert", "replace"}
  THEN LET order == change.fullDocument
       IN IF order # NoDocument
          THEN <<OrderUpdate(<<"order", order._id>>, order),
                 OrderUpdate(<<"user", order.user>>, order),
                 OrderUpdate(<<"agent", order.deliveryAgent>>, order)>>
          ELSE <<>>
  ELSE <<>>

\* the 'change' handler: the messages it emits for one change
OrderUpdates(change) ==
  IF change.operationType \in {"update", "insert", "replace"}
  THEN LET order == change.fullDocument
       IN IF order # NoDocument
          THEN <<OrderUpdate(<<"order", order._id>>, order),
                 OrderUpdate(<<"user", order.user>>, order)>>
               \o (IF order.deliveryAgent # Null
                   THEN <<OrderUpdate(<<"agent", order.deliveryAgent>>,
                                      order)>>
                   ELSE <<>>)
          ELSE <<>>
  ELSE <<>>

\* createOrderChangeStream, run with t timers left pending: the held
\* stream, if any, is closed; Order.watch makes the new stream, which starts
\* at the present end of the changes (resumeAfter: null); if it throws, the
\* catch block sets a timer
createOrderChangeStream(t, throws) ==
  /\ throws => faults < MaxFaults
  /\ closeEvents' = closeEvents + (IF orderChangeStream = "open" THEN 1 ELSE 0)
  /\ IF throws
     THEN /\ orderChangeStream' =
               (IF orderChangeStream = Null THEN Null ELSE "closed")
          /\ timers' = t + 1
          /\ faults' = faults + 1
          /\ cursor' = cursor
     ELSE /\ orderChangeStream' = "open"
          /\ timers' = t
          /\ faults' = faults
          /\ cursor' = Len(oplog)
  /\ UNCHANGED <<shutdown, orphans, oplog, published>>

\* a timer set by the 'error' handler, the 'close' handler or the catch
\* block runs out
reconnectTimer(throws) ==
  /\ timers > 0
  /\ createOrderChangeStream(timers - 1, throws)
  /\ readyState' = readyState
  /\ UNCHANGED <<lifecycleVars, registryVars>>

\* mongoose.connection 'connected': readyState becomes 1 and the handler set
\* by setupChangeStreams runs
connection_connected(throws) ==
  /\ readyState # 1
  /\ readyState' = 1
  /\ createOrderChangeStream(timers, throws)
  /\ UNCHANGED <<lifecycleVars, registryVars>>

\* mongoose.connection 'disconnected': the handler only logs
connection_disconnected ==
  /\ readyState = 1
  /\ faults < MaxFaults
  /\ readyState' = 0
  /\ faults' = faults + 1
  /\ UNCHANGED <<orderChangeStream, closeEvents, timers, shutdown, orphans,
                 oplog, cursor, published>>
  /\ UNCHANGED <<lifecycleVars, registryVars>>

\* the stream raises 'error': the handler sets a timer; the driver then
\* closes the stream, which will emit 'close'
orderChangeStream_onError ==
  /\ orderChangeStream = "open"
  /\ faults < MaxFaults
  /\ faults' = faults + 1
  /\ timers' = timers + 1
  /\ orderChangeStream' = "closed"
  /\ closeEvents' = closeEvents + 1
  /\ UNCHANGED <<readyState, shutdown, orphans, oplog, cursor, published>>
  /\ UNCHANGED <<lifecycleVars, registryVars>>

\* the stream is closed by the server or the driver, without an error
orderChangeStream_closes ==
  /\ orderChangeStream = "open"
  /\ faults < MaxFaults
  /\ faults' = faults + 1
  /\ orderChangeStream' = "closed"
  /\ closeEvents' = closeEvents + 1
  /\ UNCHANGED <<readyState, timers, shutdown, orphans, oplog, cursor,
                 published>>
  /\ UNCHANGED <<lifecycleVars, registryVars>>

\* the 'close' handler that sets no timer
orderChangeStream_onClose_NoReconnect ==
  /\ closeEvents > 0
  /\ closeEvents' = closeEvents - 1
  /\ timers' = timers
  /\ UNCHANGED <<readyState, orderChangeStream, faults, shutdown, orphans,
                 oplog, cursor, published>>
  /\ UNCHANGED <<lifecycleVars, registryVars>>

\* a closed stream emits 'close': the handler sets a timer if the
\* connection's readyState is 1
orderChangeStream_onClose ==
  /\ closeEvents > 0
  /\ closeEvents' = closeEvents - 1
  /\ timers' = IF readyState = 1 THEN timers + 1 ELSE timers
  /\ UNCHANGED <<readyState, orderChangeStream, faults, shutdown, orphans,
                 oplog, cursor, published>>
  /\ UNCHANGED <<lifecycleVars, registryVars>>

\* the store commits a change of an order
commitOrderChange ==
  /\ Len(oplog) < MaxCommits
  /\ \E change \in Changes(Len(oplog) + 1) : oplog' = Append(oplog, change)
  /\ UNCHANGED <<readyState, orderChangeStream, closeEvents, timers, faults,
                 shutdown, orphans, cursor, published>>
  /\ UNCHANGED <<lifecycleVars, registryVars>>

\* the 'change' handler that puts its messages before the earlier ones
orderChangeStream_onChange_NewestFirst ==
  /\ orderChangeStream = "open"
  /\ readyState = 1
  /\ cursor < Len(oplog)
  /\ cursor' = cursor + 1
  /\ published' = IF oplog[cursor + 1].operationType \in Watched
                  THEN OrderUpdates(oplog[cursor + 1]) \o published
                  ELSE published
  /\ UNCHANGED <<readyState, orderChangeStream, closeEvents, timers, faults,
                 shutdown, orphans, oplog>>
  /\ UNCHANGED <<lifecycleVars, registryVars>>

\* the held stream passes its next change: one the pipeline lets through
\* is handed to the 'change' handler, which emits all its messages before
\* the next change is handed to it (it has no await)
orderChangeStream_onChange ==
  /\ orderChangeStream = "open"
  /\ readyState = 1
  /\ cursor < Len(oplog)
  /\ cursor' = cursor + 1
  /\ published' = IF oplog[cursor + 1].operationType \in Watched
                  THEN published \o OrderUpdates(oplog[cursor + 1])
                  ELSE published
  /\ UNCHANGED <<readyState, orderChangeStream, closeEvents, timers, faults,
                 shutdown, orphans, oplog>>
  /\ UNCHANGED <<lifecycleVars, registryVars>>

\* closeChangeStreams up to its await: orderChangeStream.close()
closeChangeStreams_close ==
  /\ shutdown = "running"
  /\ IF orderChangeStream = Null
     THEN /\ shutdown' = "closed"
          /\ UNCHANGED <<orderChangeStream, closeEvents>>
     ELSE /\ shutdown' = "closing"
          /\ orderChangeStream' = "closed"
          /\ closeEvents' =
               closeEvents + (IF orderChangeStream = "open" THEN 1 ELSE 0)
  /\ UNCHANGED <<readyState, timers, faults, orphans, oplog, cursor,
                 published>>
  /\ UNCHANGED <<lifecycleVars, registryVars>>

\* closeChangeStreams after its await: orderChangeStream = null, whatever
\* stream the module holds by then
closeChangeStreams_return ==
  /\ shutdown = "closing"
  /\ shutdown' = "closed"
  /\ orphans' = orphans + (IF orderChangeStream = "open" THEN 1 ELSE 0)
  /\ orderChangeStream' = Null
  /\ UNCHANGED <<readyState, closeEvents, timers, faults, oplog, cursor,
                 published>>
  /\ UNCHANGED <<lifecycleVars, registryVars>>

\* ------------------------------------------------------- gracefulShutdown
\* gracefulShutdown begins with closeChangeStreams (closeChangeStreams_close
\* and closeChangeStreams_return above).  After the await it calls
\* server.close(callback) and sets the 10 s timer of the forced exit.
gracefulShutdown_closeServer ==
  /\ shutdown = "closed"
  /\ shutdown' = "serverClosing"
  /\ UNCHANGED <<readyState, orderChangeStream, closeEvents, timers, faults,
                 orphans, oplog, cursor, published>>
  /\ UNCHANGED <<lifecycleVars, registryVars>>

\* closeChangeStreams throws: the catch block calls process.exit(1)
gracefulShutdown_catch ==
  /\ shutdown = "closing"
  /\ shutdown' = "exited"
  /\ UNCHANGED <<readyState, orderChangeStream, closeEvents, timers, faults,
                 orphans, oplog, cursor, published>>
  /\ UNCHANGED <<lifecycleVars, registryVars>>

\* the HTTP server has closed its last connection: the callback of
\* server.close calls mongoose.connection.close
server_onClose ==
  /\ shutdown = "serverClosing"
  /\ shutdown' = "dbClosing"
  /\ UNCHANGED <<readyState, orderChangeStream, closeEvents, timers, faults,
                 orphans, oplog, cursor, published>>
  /\ UNCHANGED <<lifecycleVars, registryVars>>

\* the database connection has closed.  The first gracefulShutdown of
\* index.js (lines 119-146) only awaits it, the second (lines 258-288) calls
\* process.exit(0) in the callback of close.
connection_onClose(exits) ==
  /\ shutdown = "dbClosing"
  /\ shutdown' = IF exits THEN "exited" ELSE "dbClosed"
  /\ readyState' = 0
  /\ UNCHANGED <<orderChangeStream, closeEvents, timers, faults, orphans,
                 oplog, cursor, published>>
  /\ UNCHANGED <<lifecycleVars, registryVars>>

\* a forced exit whose timer is set in the callback of server.close
gracefulShutdown_forcedExit_AfterServerClose ==
  /\ shutdown \in {"dbClosing", "dbClosed"}
  /\ shutdown' = "exited"
  /\ UNCHANGED <<readyState, orderChangeStream, closeEvents, timers, faults,
                 orphans, oplog, cursor, published>>
  /\ UNCHANGED <<lifecycleVars, registryVars>>

\* the 10 s timer set after server.close runs out: process.exit(1)
gracefulShutdown_forcedExit ==
  /\ shutdown \in {"serverClosing", "dbClosing", "dbClosed"}
  /\ shutdown' = "exited"
  /\ UNCHANGED <<readyState, orderChangeStream, closeEvents, timers, faults,
                 orphans, oplog, cursor, published>>
  /\ UNCHANGED <<lifecycleVars, registryVars>>

\* ------------------------------------------------------------------- Next
Next ==
  \/ \E a \in Agents, b \in BOOLEAN : verifyDeliveryAgent(a, b)
       /\ UNCHANGED <<registryVars, watcherVars>>
  \/ \E a \in Agents, b \in BOOLEAN : updateAvailability(a, b)
       /\ UNCHANGED <<registryVars, watcherVars>>
  \/ \E a \in Agents, o \in Orders : acceptOrder_readAgent(a, o)
       /\ UNCHANGED <<registryVars, watcherVars>>
  \/ \E q \in BagToSet(pending) : acceptOrder_readOrder(q)
       /\ UNCHANGED <<registryVars, watcherVars>>
  \/ \E q \in BagToSet(pending) : acceptOrder_saveOrder(q)
       /\ UNCHANGED <<registryVars, watcherVars>>
  \/ \E q \in BagToSet(pending) : acceptOrder_saveAgent(q)
       /\ UNCHANGED <<registryVars, watcherVars>>
  \/ \E a \in Agents, o \in Orders : completeDelivery_readAgent(a, o)
       /\ UNCHANGED <<registryVars, watcherVars>>
  \/ \E q \in BagToSet(pending) : completeDelivery_readOrder(q)
       /\ UNCHANGED <<registryVars, watcherVars>>
  \/ \E q \in BagToSet(pending) : completeDelivery_saveOrder(q)
       /\ UNCHANGED <<registryVars, watcherVars>>
  \/ \E q \in BagToSet(pending) : completeDelivery_saveAgent(q)
       /\ UNCHANGED <<registryVars, watcherVars>>
  \/ \E a \in Agents, o \in Orders : rejectOrder_readAgent(a, o)
       /\ UNCHANGED <<registryVars, watcherVars>>
  \/ \E q \in BagToSet(pending) : rejectOrder_readOrder(q)
       /\ UNCHANGED <<registryVars, watcherVars>>
  \/ \E q \in BagToSet(pending) : rejectOrder_saveAgent(q)
       /\ UNCHANGED <<registryVars, watcherVars>>

Spec == Init /\ [][Next]_vars

\* one agent and two orders: one confirmed, the other confirmed or
\* accepted by the agent
InitTwoOrders ==
  \E d \in {ConfirmedOrder, AcceptedOrder("A")} :
    InitStore({"A"}, [o \in {"O1", "O2"} |->
                        IF o = "O1" THEN ConfirmedOrder
                        ELSE PickupAt(d, Pickup_2500)])

\* the order lifecycle together with getNearbyOrders
NextTwoOrders ==
  \/ Next
  \/ \E a \in Agents, b \in BOOLEAN : getNearbyOrders_readAgent(a, b)
       /\ UNCHANGED <<registryVars, watcherVars>>
  \/ \E q \in BagToSet(pending) : getNearbyOrders_findOrders(q)
       /\ UNCHANGED <<registryVars, watcherVars>>
  \/ \E q \in BagToSet(pending) : getNearbyOrders_findActive(q)
       /\ UNCHANGED <<registryVars, watcherVars>>

SpecTwoOrders == InitTwoOrders /\ [][NextTwoOrders]_vars

\* longitudes and latitudes sent to updateLocation
Longitudes == {Number(7), Number(0), String(7)}
Latitudes == {Number(2), Undefined}

\* pickup points orders are stored with
Pickups == {Pickup_1500, Pickup_2500, <<>>}

\* one agent and two orders: one confirmed, the other confirmed or
\* accepted by the agent, each with or without pickup coordinates
InitLocation ==
  \E d \in {ConfirmedOrder, AcceptedOrder("A")},
     p1 \in Pickups, p2 \in {Pickup_2500, <<>>} :
    InitStore({"A"}, [o \in {"O1", "O2"} |->
                        IF o = "O1" THEN PickupAt(ConfirmedOrder, p1)
                        ELSE PickupAt(d, p2)])

\* verification, availability, getNearbyOrders, updateLocation and
\* completeDelivery
NextLocation ==
  \/ \E a \in Agents, b \in BOOLEAN : verifyDeliveryAgent(a, b)
       /\ UNCHANGED <<registryVars, watcherVars>>
  \/ \E a \in Agents, b \in BOOLEAN : updateAvailability(a, b)
       /\ UNCHANGED <<registryVars, watcherVars>>
  \/ \E a \in Agents, b \in BOOLEAN : getNearbyOrders_readAgent(a, b)
       /\ UNCHANGED <<registryVars, watcherVars>>
  \/ \E q \in BagToSet(pending) : getNearbyOrders_findOrders(q)
       /\ UNCHANGED <<registryVars, watcherVars>>
  \/ \E q \in BagToSet(pending) : getNearbyOrders_findActive(q)
       /\ UNCHANGED <<registryVars, watcherVars>>
  \/ \E a \in Agents, x \in Longitudes, y \in Latitudes :
       updateLocation_readAgent(a, x, y)
  \/ \E q \in BagToSet(pending) : updateLocation_save(q)
  \/ \E q \in BagToSet(pending) : updateLocation_findOrders(q)
  \/ \E a \in Agents, o \in Orders : completeDelivery_readAgent(a, o)
       /\ UNCHANGED <<registryVars, watcherVars>>
  \/ \E q \in BagToSet(pending) : completeDelivery_readOrder(q)
       /\ UNCHANGED <<registryVars, watcherVars>>
  \/ \E q \in BagToSet(pending) : completeDelivery_saveOrder(q)
       /\ UNCHANGED <<registryVars, watcherVars>>
  \/ \E q \in BagToSet(pending) : completeDelivery_saveAgent(q)
       /\ UNCHANGED <<registryVars, watcherVars>>

SpecLocation == InitLocation /\ [][NextLocation]_vars

\* one newly registered agent and one confirmed order
InitVerification == InitStore({"A"}, [o \in {"O1"} |-> ConfirmedOrder])

\* verification and availability, acceptOrder, rejectOrder and
\* updateLocation
NextVerification ==
  \/ \E a \in Agents, b \in BOOLEAN : verifyDeliveryAgent(a, b)
       /\ UNCHANGED <<registryVars, watcherVars>>
  \/ \E a \in Agents, b \in BOOLEAN : updateAvailability(a, b)
       /\ UNCHANGED <<registryVars, watcherVars>>
  \/ \E a \in Agents, o \in Orders : acceptOrder_readAgent(a, o)
       /\ UNCHANGED <<registryVars, watcherVars>>
  \/ \E q \in BagToSet(pending) : acceptOrder_readOrder(q)
       /\ UNCHANGED <<registryVars, watcherVars>>
  \/ \E q \in BagToSet(pending) : acceptOrder_saveOrder(q)
       /\ UNCHANGED <<registryVars, watcherVars>>
  \/ \E q \in BagToSet(pending) : acceptOrder_saveAgent(q)
       /\ UNCHANGED <<registryVars, watcherVars>>
  \/ \E a \in Agents, o \in Orders : rejectOrder_readAgent(a, o)
       /\ UNCHANGED <<registryVars, watcherVars>>
  \/ \E q \in BagToSet(pending) : rejectOrder_readOrder(q)
       /\ UNCHANGED <<registryVars, watcherVars>>
  \/ \E q \in BagToSet(pending) : rejectOrder_saveAgent(q)
       /\ UNCHANGED <<registryVars, watcherVars>>
  \/ \E a \in Agents, x \in Longitudes, y \in Latitudes :
       updateLocation_readAgent(a, x, y)
  \/ \E q \in BagToSet(pending) : updateLocation_save(q)
  \/ \E q \in BagToSet(pending) : updateLocation_findOrders(q)

SpecVerification == InitVerification /\ [][NextVerification]_vars

\* registration alone, on a store without agents
NextRegister ==
  \/ \E u \in Users : registerAsDeliveryAgent_findOne(u)
       /\ UNCHANGED watcherVars
  \/ \E q \in BagToSet(pending) : registerAsDeliveryAgent_save(q)
       /\ UNCHANGED watcherVars
  \/ \E q \in BagToSet(pending) : registerAsDeliveryAgent_updateUser(q)
       /\ UNCHANGED watcherVars

InitRegister == InitStore({}, <<>>)

SpecRegister == InitRegister /\ [][NextRegister]_vars

\* the watcher alone, on a store without agents
NextWatcher ==
  \/ \E throws \in BOOLEAN : reconnectTimer(throws)
  \/ \E throws \in BOOLEAN : connection_connected(throws)
  \/ connection_disconnected
  \/ orderChangeStream_onError
  \/ orderChangeStream_closes
  \/ orderChangeStream_onClose
  \/ commitOrderChange
  \/ orderChangeStream_onChange
  \/ closeChangeStreams_close
  \/ closeChangeStreams_return

InitWatcher == InitStore({}, <<>>)

SpecWatcher == InitWatcher /\ [][NextWatcher]_vars

\* timers run out and closed streams emit 'close'
SpecWatcherFair ==
  /\ InitWatcher
  /\ [][NextWatcher]_vars
  /\ WF_vars(\E throws \in BOOLEAN : reconnectTimer(throws))
  /\ WF_vars(orderChangeStream_onClose)

\* the failures and reconnects of the watcher, without changes of orders
NextReconnect ==
  \/ \E throws \in BOOLEAN : reconnectTimer(throws)
  \/ \E throws \in BOOLEAN : connection_connected(throws)
  \/ connection_disconnected
  \/ orderChangeStream_onError
  \/ orderChangeStream_closes
  \/ orderChangeStream_onClose
  \/ closeChangeStreams_close
  \/ closeChangeStreams_return

\* the watcher and the shutdown of the process; nothing runs after
\* process.exit
NextShutdown ==
  \/ shutdown # "exited" /\ NextReconnect
  \/ gracefulShutdown_closeServer
  \/ gracefulShutdown_catch
  \/ server_onClose
  \/ \E exits \in BOOLEAN : connection_onClose(exits)
  \/ gracefulShutdown_forcedExit

SpecShutdown == InitWatcher /\ [][NextShutdown]_vars

\* the awaited close of the stream settles, the handler goes on after its
\* await, and the 10 s timer runs out
SpecShutdownFair ==
  /\ InitWatcher
  /\ [][NextShutdown]_vars
  /\ WF_vars(closeChangeStreams_return \/ gracefulShutdown_catch)
  /\ WF_vars(gracefulShutdown_closeServer)
  /\ WF_vars(gracefulShutdown_forcedExit)

TypeOK ==
  /\ \A a \in Agents : agents[a].v \in 0..(MaxReq + Cardinality(Orders))
  /\ \A o \in Orders : orders[o].status \in
        {"confirmed", "out_for_delivery", "delivered", "cancelled"}
  /\ now \in 1..(MaxReq + 1)
  /\ Calls <= MaxReq

\* ------------------------------------------------------------ vocabulary
\* the invocations waiting at an await, and the responses sent
Pending == BagToSet(pending)
Sent == BagToSet(responses)

\* invocation q resumes in this step
StepOf(q) == CopiesIn(q, pending') < CopiesIn(q, pending)

\* invocation q reaches its first await in this step
Starts(q) == CopiesIn(q, pending') > CopiesIn(q, pending) /\ Calls' > Calls

\* response x is sent in this step
IsSent(x) == CopiesIn(x, responses') > CopiesIn(x, responses)

\* invocation q returns in this step
Returns(q) == StepOf(q) /\ BagCardinality(pending') < BagCardinality(pending)

\* invocation q returns with outcome out in this step
ReturnsWith(q, out) ==
  Returns(q) /\ IsSent(Response(q.op, q.agent, q.order, out))

\* invocation q has written the order (its order.save() has been applied)
WroteOrder(q) == q.op \in {"accept", "complete"} /\ q.pc = "saveAgent"

\* agent a may accept orders
Eligible(a) == agents[a].isVerified /\ agents[a].isAvailable

\* the timestamps of a statusHistory do not decrease
Ascending(h) ==
  \A i, j \in 1..Len(h) : i < j => h[i].timestamp <= h[j].timestamp

\* ------------------------------------------------------------------ C1
\* C1: of the acceptOrder requests that distinct verified, available agents
\* make on one confirmed order, exactly one returns success and every other
\* one returns the 'already assigned' failure.
C1_ExactlyOneAcceptSucceeds ==
  \A x, y \in Sent :
    ( /\ x.op = "accept" /\ y.op = "accept"
      /\ x.order = y.order
      /\ x.agent # y.agent
      /\ x.outcome = "success" )
    => y.outcome \in {"already_assigned", "not_verified", "not_available"}

\* ------------------------------------------------------------------ C2
\* C2: in every reachable state an order has a delivery agent if and only
\* if its status is out_for_delivery or delivered.
C2_AssignedIffOutOrDelivered ==
  \A o \in Orders :
    (orders[o].deliveryAgent # Null)
      <=> (orders[o].status \in {"out_for_delivery", "delivered"})

\* an order that its agent has delivered with a successful completeDelivery
C2_Witness ==
  \E o \in Orders, x \in Sent :
    /\ orders[o].status = "delivered"
    /\ orders[o].deliveryAgent # Null
    /\ x.op = "complete" /\ x.order = o /\ x.outcome = "success"

\* ------------------------------------------------------------------ C3
\* C3: once an order is delivered or cancelled, no step of any request
\* changes its status, its delivery agent or its statusHistory.
C3_TerminalOrderIsFrozen ==
  [][\A o \in Orders :
       orders[o].status \in Terminal =>
         /\ orders'[o].status = orders[o].status
         /\ orders'[o].deliveryAgent = orders[o].deliveryAgent
         /\ orders'[o].statusHistory = orders[o].statusHistory]_vars

\* ------------------------------------------------------------------ C4
\* C4: once an order has a delivery agent, no step replaces it, and an
\* acceptOrder that returns success returns it for the agent the order has.
C4_AssignmentNeverOverwritten ==
  [][/\ \A o \in Orders :
          orders[o].deliveryAgent # Null =>
            orders'[o].deliveryAgent = orders[o].deliveryAgent
     /\ \A q \in Pending :
          (q.op = "accept" /\ ReturnsWith(q, "success"))
            => orders[q.order].deliveryAgent = q.agent]_vars

\* ------------------------------------------------------------------ C5
\* C5: a completeDelivery by an agent other than the one the order is
\* assigned to returns the forbidden outcome, and no step of the request
\* changes the order or either agent.
C5_NonOwnerCompleteForbidden ==
  [][/\ \A q \in BagToSet(pending') :
          (q.op = "complete" /\ Starts(q))
            => (orders' = orders /\ agents' = agents)
     /\ \A q \in Pending :
          ( /\ q.op = "complete" /\ q.pc = "readOrder" /\ StepOf(q)
            /\ orders[q.order].deliveryAgent \notin {Null, q.agent} )
            => ( /\ ReturnsWith(q, "forbidden")
                 /\ orders' = orders
                 /\ agents' = agents )]_vars

\* agent B was refused the completion of an order that is out for delivery
\* with agent A
C5_Witness ==
  \E x \in Sent :
    /\ x.op = "complete" /\ x.outcome = "forbidden"
    /\ orders[x.order].status = "out_for_delivery"
    /\ orders[x.order].deliveryAgent \notin {Null, x.agent}

\* ------------------------------------------------------------------ C6
\* C6: an acceptOrder by an agent that is unverified or unavailable returns
\* a failure at once and changes neither the order nor the agent, and an
\* acceptOrder returns success only for an agent that was verified and
\* available when the handler read it.
C6_AcceptNeedsVerifiedAvailable ==
  [][/\ \A q \in BagToSet(pending') :
          (q.op = "accept" /\ Starts(q)) => Eligible(q.agent)
     /\ \A x \in BagToSet(responses') :
          ( /\ x.op = "accept" /\ IsSent(x)
            /\ x.outcome \in {"not_verified", "not_available"} )
            => ( /\ ~ Eligible(x.agent)
                 /\ orders' = orders
                 /\ agents' = agents )
     /\ \A q \in Pending :
          (q.op = "accept" /\ ReturnsWith(q, "success"))
            => (q.agentDoc.isVerified /\ q.agentDoc.isAvailable)]_vars

\* an accept was refused for an unavailable agent and another accept
\* succeeded
C6_Witness ==
  \E x, y \in Sent :
    /\ x.op = "accept" /\ x.outcome = "not_available"
    /\ y.op = "accept" /\ y.outcome = "success"

\* ------------------------------------------------------------------ C7
\* C7: a request that finds its order delivered or cancelled returns a
\* failure, and a rejectOrder on such an order adds nothing to the agent's
\* rejectedOrders.
C7_TerminalOrderRefusesRequests ==
  [][\A q \in Pending :
       /\ ( /\ q.pc = "readOrder" /\ StepOf(q)
            /\ orders[q.order].status \in Terminal )
            => (Returns(q) /\ ~ ReturnsWith(q, "success"))
       /\ ( /\ q.op = "reject" /\ q.pc = "saveAgent" /\ StepOf(q)
            /\ q.orderDoc.status \in Terminal )
            => agents'[q.agent].rejectedOrders
                 = agents[q.agent].rejectedOrders]_vars

\* ------------------------------------------------------------------ C8
\* C8: a step that changes an order's status appends exactly one
\* statusHistory entry with the new status; the last statusHistory entry
\* carries the order's status; rejectOrder writes no order; and a request
\* that returns a failure has appended nothing.
C8_OneHistoryEntryPerTransition ==
  [][/\ \A o \in Orders :
          /\ orders'[o].status # orders[o].status =>
               orders'[o].statusHistory = Append(orders[o].statusHistory,
                  [status |-> orders'[o].status,
                   timestamp |-> orders'[o].statusHistory[
                                    Len(orders'[o].statusHistory)].timestamp])
          /\ orders[o].statusHistory # <<>> =>
               orders[o].statusHistory[Len(orders[o].statusHistory)].status
                 = orders[o].status
     /\ \A q \in Pending :
          (q.op = "reject" /\ StepOf(q)) => orders' = orders
     /\ \A q \in Pending :
          (Returns(q) /\ ~ ReturnsWith(q, "success")) => ~ WroteOrder(q)]_vars

\* ------------------------------------------------------------------ C9
\* C9: statusHistory only grows at its end, and its timestamps ascend.
C9_HistoryAppendOnlyAscending ==
  [][\A o \in Orders :
       /\ IsPrefix(orders[o].statusHistory, orders'[o].statusHistory)
       /\ Ascending(orders'[o].statusHistory)]_vars

\* ----------------------------------------------------------------- C10
\* C10: after two or more rejectOrder calls by one agent on one order have
\* returned success, the agent's rejectedOrders holds the order exactly once.
C10_RejectIdempotent ==
  \A x \in Sent :
    ( /\ x.op = "reject" /\ x.outcome = "success"
      /\ CopiesIn(x, responses) >= 2 )
    => Count(agents[x.agent].rejectedOrders, x.order) = 1

\* ----------------------------------------------------------------- C11
\* C11: a completeDelivery(A,O) sets O's status to delivered when it saves
\* the order, and when it returns success O is not in A.activeOrders, O is
\* in A.deliveryHistory, and the other elements of both are as they were.
C11_CompleteMovesOrderToHistory ==
  [][\A q \in Pending :
       /\ (q.op = "complete" /\ q.pc = "saveOrder" /\ StepOf(q))
            => orders'[q.order].status = "delivered"
       /\ (q.op = "complete" /\ ReturnsWith(q, "success"))
            => ( /\ ~ Includes(agents'[q.agent].activeOrders, q.order)
                 /\ Includes(agents'[q.agent].deliveryHistory, q.order)
                 /\ FilterOut(agents'[q.agent].activeOrders, q.order)
                      = FilterOut(agents[q.agent].activeOrders, q.order)
                 /\ FilterOut(agents'[q.agent].deliveryHistory, q.order)
                      = FilterOut(agents[q.agent].deliveryHistory, q.order)
               )]_vars

\* ----------------------------------------------------------------- C12
\* C12: when no request is in flight, an agent's activeOrders holds exactly
\* the orders that are assigned to the agent and out for delivery.
C12_NoLostActiveOrdersUpdate ==
  pending = EmptyBag =>
    \A a \in Agents, o \in Orders :
      Includes(agents[a].activeOrders, o)
        <=> ( /\ orders[o].deliveryAgent = a
              /\ orders[o].status = "out_for_delivery" )

\* ----------------------------------------------------------------- C13
\* C13: in every state an order that is out for delivery with agent A is in
\* A.activeOrders, and no delivered order of A is still in A.activeOrders
\* and missing from A.deliveryHistory.
C13_OrderAndAgentAtomic ==
  \A a \in Agents, o \in Orders :
    orders[o].deliveryAgent = a =>
      /\ orders[o].status = "out_for_delivery"
           => Includes(agents[a].activeOrders, o)
      /\ orders[o].status = "delivered"
           => ~ ( /\ Includes(agents[a].activeOrders, o)
                  /\ ~ Includes(agents[a].deliveryHistory, o) )

StreamActive == orderChangeStream = "open" /\ readyState = 1

\* the 'close' handler runs in this step
HandlesClose == closeEvents' < closeEvents

\* the held stream hands its next change on in this step
Delivers ==
  /\ cursor' = cursor + 1
  /\ orderChangeStream' = orderChangeStream
  /\ closeEvents' = closeEvents

\* the messages emitted in this step
Emitted == SubSeq(published', Len(published) + 1, Len(published'))

\* the number of orderUpdate messages in msgs that go to room
SendsTo(msgs, room) ==
  Cardinality({i \in 1..Len(msgs) :
                 msgs[i].room = room /\ msgs[i].event = "orderUpdate"})

\* ----------------------------------------------------------------- C15
\* C15: a 'close' of the stream that is handled while the store connection
\* is live sets one reconnect timer, and while the watcher runs, a live
\* connection without an open stream leads to an open stream again, or to
\* the loss of the connection or to shutdown (timers run out, and closed
\* streams emit 'close').
C15_ReconnectsWhileConnected ==
  /\ [][(HandlesClose /\ readyState = 1) => timers' = timers + 1]_vars
  /\ (readyState = 1 /\ shutdown = "running" /\ orderChangeStream # "open")
       ~> (StreamActive \/ readyState # 1 \/ shutdown # "running")

\* after a failure the stream is open again on a live connection, with the
\* second of the two timers of an 'error' still pending
C15_Witness ==
  /\ faults = 1
  /\ StreamActive
  /\ shutdown = "running"
  /\ timers = 1
  /\ closeEvents = 0

\* ----------------------------------------------------------------- C16
\* C16: while the store connection is down, no reconnect timer is set and
\* none runs createOrderChangeStream.
C16_NoReconnectWhileDown ==
  [][(readyState # 1 /\ readyState' # 1) => timers' = timers]_vars

\* ----------------------------------------------------------------- C17
\* C17: once closeChangeStreams has been called, no reconnect timer is set,
\* and no open stream exists in any later state.
C17_NoReconnectAfterShutdown ==
  [][shutdown # "running" =>
       /\ timers' <= timers
       /\ orderChangeStream' # "open"
       /\ orphans' = 0]_vars

\* ----------------------------------------------------------------- C18
\* C18: while the watcher runs, a stream made in place of a closed one
\* passes over no committed change that carries an order document: it
\* takes up the changes where the closed one stopped.
C18_NoChangeLostAcrossReconnect ==
  [][( /\ shutdown = "running"
       /\ orderChangeStream = "closed"
       /\ orderChangeStream' = "open" )
     => \A i \in (cursor + 1)..cursor' :
          ~ ( /\ oplog[i].operationType \in Watched
              /\ oplog[i].fullDocument # NoDocument )]_vars

\* ----------------------------------------------------------------- C19
\* C19: only the delivery of a change emits messages; for an insert, update
\* or replace that carries an order document it emits one orderUpdate to
\* the order's room, one to the room of the order's user and, if and only
\* if the order has a deliveryAgent, one to that agent's room, and nothing
\* else; for any other change it emits nothing.
C19_FanOutPerChange ==
  [][/\ published' # published => Delivers
     /\ Delivers =>
          LET change == oplog[cursor + 1]
              order == change.fullDocument
          IN /\ published' = published \o Emitted
             /\ IF change.operationType \in {"insert", "update", "replace"}
                   /\ order # NoDocument
                THEN /\ SendsTo(Emitted, <<"order", order._id>>) = 1
                     /\ SendsTo(Emitted, <<"user", order.user>>) = 1
                     /\ order.deliveryAgent # Null =>
                          /\ SendsTo(Emitted,
                                     <<"agent", order.deliveryAgent>>) = 1
                          /\ Len(Emitted) = 3
                     /\ order.deliveryAgent = Null => Len(Emitted) = 2
                ELSE Emitted = <<>>]_vars

\* an assigned order's change went to three rooms, an unassigned order's to
\* two
C19_Witness ==
  /\ Len(oplog) = 2 /\ cursor = 2
  /\ oplog[1].fullDocument.deliveryAgent = Null
  /\ oplog[1].fullDocument # NoDocument
  /\ oplog[2].fullDocument.deliveryAgent = "A"
  /\ Len(published) = 5

\* ----------------------------------------------------------------- C20
\* C20: the orders a getNearbyOrders finds for agent A are confirmed and
\* unassigned when it reads them and are not in the rejectedOrders of the
\* agent it read; and the agent a getNearbyOrders reads has in its
\* rejectedOrders every order a rejectOrder of A has returned success for,
\* so that no such order is found by a later call.
C20_CandidatesExcludeRejected ==
  [][/\ \A q \in BagToSet(pending') :
          (q.op = "nearby" /\ Starts(q))
            => \A x \in Sent :
                 ( /\ x.op = "reject" /\ x.agent = q.agent
                   /\ x.outcome = "success" )
                 => Includes(q.agentDoc.rejectedOrders, x.order)
     /\ \A r \in BagToSet(pending') :
          ( /\ r.op = "nearby" /\ r.pc = "findActive"
            /\ CopiesIn(r, pending') > CopiesIn(r, pending) )
          => \A i \in 1..Len(r.found) :
               /\ orders[r.found[i]._id].status = "confirmed"
               /\ orders[r.found[i]._id].deliveryAgent = Null
               /\ ~ Includes(r.agentDoc.rejectedOrders,
                             r.found[i]._id)]_vars

\* after a successful rejectOrder of O1 by A, a getNearbyOrders of A has
\* answered with O2 alone
C20_Witness ==
  \E x, y \in Sent :
    /\ x.op = "reject" /\ x.order = "O1" /\ x.outcome = "success"
    /\ y.op = "nearby" /\ y.agent = x.agent /\ y.outcome = "success"
    /\ Len(y.orders) = 1 /\ y.orders[1]._id = "O2"
    /\ orders["O1"].status = "confirmed"
    /\ orders["O1"].deliveryAgent = Null
\* ------------------------------------------------ listing vocabulary
\* order o was stored without usable pickup coordinates
NoCoordinates(o) == orders[o].pickupLocation.coordinates = <<>>

\* the ids of the records in the list s
Ids(s) == {s[i]._id : i \in 1..Len(s)}

\* the orders of the agent that q read which are out for delivery
OwnActive(q) ==
  {o \in Orders : /\ Includes(q.agentDoc.activeOrders, o)
                  /\ orders[o].status = "out_for_delivery"}

\* getNearbyOrders invocation q answers in this step
Lists(q) == q.op = "nearby" /\ q.pc = "findActive" /\ StepOf(q)

\* the answer sent in this step, to a getNearbyOrders of agent a that
\* succeeded
Listing(a) ==
  {x \in BagToSet(responses') :
     /\ IsSent(x)
     /\ x.op = "nearby" /\ x.agent = a /\ x.outcome = "success"}

\* ----------------------------------------------------------------- C21
\* C21: a getNearbyOrders that meets an order without usable pickup
\* coordinates, among the candidates it found or among the agent's own
\* active orders, still answers success; its candidates are in ascending
\* order of distance, and each candidate without coordinates carries the
\* sentinel MAX_SAFE_INTEGER, has withinDeliveryRange false and comes after
\* every candidate with a computed distance.
C21_BadCoordinatesDoNotAbort ==
  [][\A q \in BagToSet(pending) :
       ( /\ Lists(q)
         /\ \E o \in Ids(q.found) \cup OwnActive(q) : NoCoordinates(o) )
       => /\ Listing(q.agent) # {}
          /\ \A i, j \in 1..Len(q.found) :
               i < j => q.found[i].distance <= q.found[j].distance
          /\ \A i \in 1..Len(q.found) :
               NoCoordinates(q.found[i]._id)
                 => /\ q.found[i].distance = MAX_SAFE_INTEGER
                    /\ ~ q.found[i].withinDeliveryRange
                    /\ \A j \in 1..Len(q.found) :
                         q.found[j].distance # MAX_SAFE_INTEGER => j < i]_vars

\* ----------------------------------------------------------------- C22
\* C22: when the agent's own active orders all have pickup coordinates, a
\* getNearbyOrders answers success and lists every order that is in the
\* activeOrders of the agent it read and is out for delivery, whatever the
\* order's distance and the includeAllConfirmed flag, after all candidates.
C22_OwnActiveOrdersListed ==
  [][\A q \in BagToSet(pending) :
       ( /\ Lists(q)
         /\ \A o \in OwnActive(q) : ~ NoCoordinates(o) )
       => \E x \in Listing(q.agent) :
            \A o \in OwnActive(q) :
              \E i \in (Len(q.found) + 1)..Len(x.orders) :
                x.orders[i]._id = o]_vars

\* ----------------------------------------------------------------- C23
\* C23: Order.find and the distance map of a getNearbyOrders (whose agent
\* was verified and available when read) put every confirmed, unassigned
\* order that the agent has not rejected and whose pickup point is d <= 2000
\* metres away among the candidates, with distance value d and
\* withinDeliveryRange true; and a candidate with pickup coordinates has
\* withinDeliveryRange true exactly when its d <= 2000.
C23_NearCandidateWithinRange ==
  [][\A r \in BagToSet(pending') :
       ( /\ r.op = "nearby" /\ r.pc = "findActive"
         /\ CopiesIn(r, pending') > CopiesIn(r, pending) )
       => LET here == r.agentDoc.currentLocation.coordinates
              d(o) == Metres(here, orders[o].pickupLocation.coordinates)
          IN /\ \A o \in Orders :
                  ( /\ orders[o].status = "confirmed"
                    /\ orders[o].deliveryAgent = Null
                    /\ ~ Includes(r.agentDoc.rejectedOrders, o)
                    /\ ~ NoCoordinates(o)
                    /\ d(o) <= 2000 )
                  => \E i \in 1..Len(r.found) :
                       /\ r.found[i]._id = o
                       /\ r.found[i].distance = d(o)
                       /\ r.found[i].withinDeliveryRange
             /\ \A i \in 1..Len(r.found) :
                  ~ NoCoordinates(r.found[i]._id)
                    => (r.found[i].withinDeliveryRange
                          <=> d(r.found[i]._id) <= 2000)]_vars

\* ----------------------------------------------------------------- C24
\* C24: the save of an updateLocation of agent A stores the position as
\* [longitude, latitude]; when the updateLocation answers success it has
\* emitted exactly one deliveryLocationUpdate to the room of every order
\* that is then in A.activeOrders, and none to another room; a
\* deliveryLocationUpdate is emitted only by an updateLocation that has
\* saved; and a request with invalid coordinates writes and emits nothing.
C24_LocationStoredThenBroadcast ==
  [][LET Updates(o) ==
           Cardinality({i \in 1..Len(Emitted) :
                          /\ Emitted[i].event = "deliveryLocationUpdate"
                          /\ Emitted[i].room = <<"order", o>>})
     IN /\ \A q \in BagToSet(pending) :
             (q.op = "location" /\ StepOf(q)) =>
               /\ q.pc = "save" =>
                    agents'[q.agent].currentLocation.coordinates
                      = <<q.longitude, q.latitude>>
               /\ ReturnsWith(q, "success") =>
                    \A o \in Orders :
                      Updates(o) =
                        IF Includes(agents[q.agent].activeOrders, o)
                        THEN 1 ELSE 0
        /\ published' # published =>
             \E q \in BagToSet(pending) :
               q.op = "location" /\ q.pc = "findOrders" /\ StepOf(q)
        /\ \A a \in Agents :
             IsSent(Response("location", a, Null, "invalid_coordinates"))
               => agents' = agents /\ published' = published]_vars

\* ----------------------------------------------------------------- C25
\* the orderUpdate messages in msgs that went to the room of order o
OnTopic(msgs, o) ==
  SelectSeq(msgs, LAMBDA m : m.event = "orderUpdate"
                             /\ m.room = <<"order", o>>)

\* C25: changes are handed to the 'change' handler in the order of the
\* stream and what was published is never reordered: the messages of one
\* change are appended together, all for that change's order and status,
\* so that after each change with an order document the last orderUpdate
\* on the order's topic carries the status and time of that change.
C25_PublishedInStreamOrder ==
  [][/\ cursor' >= cursor
     /\ IsPrefix(published, published')
     /\ Delivers =>
          LET change == oplog[cursor + 1]
              order == change.fullDocument
          IN ( /\ change.operationType \in {"insert", "update", "replace"}
               /\ order # NoDocument )
             => /\ \A i \in 1..Len(Emitted) :
                     /\ Emitted[i].orderId = order._id
                     /\ Emitted[i].status = order.status
                /\ LET topic == OnTopic(published', order._id)
                   IN /\ topic # <<>>
                      /\ topic[Len(topic)].status = order.status
                      /\ topic[Len(topic)].updatedAt = order.updatedAt]_vars

\* two changes of order O1 with different statuses were handed on, and the
\* topic of O1 holds the two statuses in that order
C25_Witness ==
  /\ Len(oplog) = 2 /\ cursor = 2
  /\ oplog[1].fullDocument.status = "out_for_delivery"
  /\ oplog[2].fullDocument.status = "delivered"
  /\ LET topic == OnTopic(published, "O1")
     IN /\ Len(topic) = 2
        /\ topic[1].status = "out_for_delivery"
        /\ topic[2].status = "delivered"

\* ----------------------------------------------------------------- C26
\* C26: the watcher settles after a failure.  A reconnect timer that runs
\* out never finds a stream open (a stream that was created stays open
\* until it fails, the connection is lost or the process shuts down); and
\* the number of pending timers grows only with a failure or when the
\* 'close' handler runs while the module holds no open stream, so that
\* closing the previous stream in createOrderChangeStream schedules no
\* further reconnect.
C26_WatcherSettles ==
  [][/\ timers' < timers => orderChangeStream # "open"
     /\ timers' > timers =>
          \/ faults' > faults
          \/ HandlesClose /\ orderChangeStream # "open"]_vars

\* ----------------------------------------------------------------- C28
\* gracefulShutdown gets as far as x in this step
ShutdownReaches(x) == shutdown # x /\ shutdown' = x

\* C28: gracefulShutdown calls server.close only after closeChangeStreams
\* has returned and closes the database connection only after the HTTP
\* server has closed; and once a shutdown has begun the process exits: when
\* the orderly path does not exit, the 10 s timer does.
C28_ShutdownOrderAndExit ==
  /\ [][/\ ShutdownReaches("closed") => shutdown \in {"running", "closing"}
        /\ ShutdownReaches("serverClosing") =>
             shutdown = "closed" /\ orderChangeStream' = orderChangeStream
        /\ ShutdownReaches("dbClosing") => shutdown = "serverClosing"
        /\ ShutdownReaches("dbClosed") => shutdown = "dbClosing"
        /\ (readyState = 1 /\ readyState' # 1 /\ faults' = faults)
             => shutdown = "dbClosing"]_vars
  /\ (shutdown # "running") ~> (shutdown = "exited")

\* the process was forced to exit while the HTTP server was still closing,
\* after a stream had been closed by closeChangeStreams
C28_Witness ==
  /\ shutdown = "exited"
  /\ readyState = 1
  /\ orderChangeStream = Null
  /\ faults > 0

\* ----------------------------------------------------------------- C27
\* C27: for each order, at most one completeDelivery has returned success,
\* statusHistory holds at most one 'delivered' entry, and the order is at
\* most once in the deliveryHistory of an agent.
C27_CompleteAtMostOnce ==
  \A o \in Orders :
    /\ BagCardinality(
         [x \in {y \in Sent : /\ y.op = "complete" /\ y.order = o
                              /\ y.outcome = "success"}
            |-> CopiesIn(x, responses)]) <= 1
    /\ Cardinality({i \in 1..Len(orders[o].statusHistory) :
                      orders[o].statusHistory[i].status = "delivered"}) <= 1
    /\ \A a \in Agents : Count(agents[a].deliveryHistory, o) <= 1

\* ----------------------------------------------------------------- C29
\* C29: agents begin available and unverified; isVerified changes only in
\* a step that changes nothing else, which is verifyDeliveryAgent; an
\* acceptOrder or rejectOrder passes its checks only for an agent that is
\* then verified, and only such a request returns success; and a step that
\* changes isAvailable or currentLocation leaves isVerified as it is.
\* Hence no acceptOrder or rejectOrder of an agent succeeds before a
\* verifyDeliveryAgent has made the agent verified.
C29_VerificationGates ==
  /\ \A a \in Agents : ~ agents[a].isVerified /\ agents[a].isAvailable
  /\ [][\A a \in Agents :
          /\ agents'[a].isVerified # agents[a].isVerified =>
               /\ agents' = [agents EXCEPT
                    ![a].isVerified = agents'[a].isVerified]
               /\ UNCHANGED <<orders, pending, responses, published>>
          /\ \A q \in BagToSet(pending') :
               ( /\ q.op \in {"accept", "reject"} /\ q.agent = a
                 /\ Starts(q) )
               => agents[a].isVerified /\ q.agentDoc.isVerified
          /\ \A q \in BagToSet(pending) :
               ( /\ q.op \in {"accept", "reject"} /\ q.agent = a
                 /\ ReturnsWith(q, "success") )
               => q.agentDoc.isVerified
          /\ \A o \in Orders :
               ( \/ IsSent(Response("accept", a, o, "success"))
                 \/ IsSent(Response("reject", a, o, "success")) )
               => \E q \in BagToSet(pending) :
                    q.agent = a /\ ReturnsWith(q, "success")
          /\ ( \/ agents'[a].isAvailable # agents[a].isAvailable
               \/ agents'[a].currentLocation # agents[a].currentLocation )
             => agents'[a].isVerified = agents[a].isVerified]_vars

\* the agent was refused while unverified and, once verified, its
\* acceptOrder returned success
C29_Witness ==
  /\ Response("accept", "A", "O1", "not_verified") \in Sent
  /\ Response("accept", "A", "O1", "success") \in Sent

====
